---- MODULE Spec2Model ----
(***************************************************************************)
(* examples/mnist_test_oss.py: main() parses the command line and spawns   *)
(* WORLD_SIZE worker processes; every worker runs train(rank, args,        *)
(* use_cuda): it joins the process group, builds the dataset, the          *)
(* DistributedSampler and the DataLoader, creates the model, the OSS       *)
(* optimizer and the ShardedDataParallel wrapper, runs the epoch / batch   *)
(* loop with a closure based optimizer step and prints the elapsed time.   *)
(***************************************************************************)
EXTENDS Integers, Sequences, FiniteSets, TLC

(* ------------------------------ bounds -------------------------------- *)
\* largest value of --epochs that is explored (epochs range over 0..MaxEpochs)
MaxEpochs == 2
\* largest dataset length that is explored (len(dataset) ranges over 1..MaxDataset)
MaxDataset == 3
\* largest value of --batch_size that is explored (1..MaxBatch)
MaxBatch == 2

(* ------------------------- program constants -------------------------- *)
\* WORLD_SIZE = 2
WORLD_SIZE == 2
\* lr=1e-4 handed to OSS, in units of 1e-4
OSS_LR == 1
\* default of --lr (1.0), in units of 1e-4
DEFAULT_LR == 10000
\* default of --test_batch_size
DEFAULT_TEST_BATCH_SIZE == 1000
\* default of --gamma (0.7), in units of 0.1
DEFAULT_GAMMA == 7
\* default of --seed
DEFAULT_SEED == 1
\* default of --log_interval
DEFAULT_LOG_INTERVAL == 10
\* seed=0, the default of DistributedSampler, which train() does not override
SAMPLER_SEED == 0

\* the time that may pass between two readings of the monotonic clock: none, or some
Elapse == {0, 1}

\* the processes mp.spawn starts: fn(i, *args) for i in range(nprocs)
Procs == 0 .. (WORLD_SIZE - 1)

VARIABLES
  args,            \* the argparse namespace
  cudaAvailable,   \* torch.cuda.is_available() on this host
  datasetLen,      \* len(datasets.MNIST(...)), the same files for every worker
  parent,          \* position of main(): "main", "joining", "returned", "raised"
  use_cuda,        \* main's local use_cuda, handed to every train()
  clock,           \* time.monotonic() in each worker; its reference point is
                   \* undefined, and is taken to be the worker's first reading
  pc,              \* position of each worker inside train()
  rank,            \* first argument of train() in each worker
  err,             \* exception that ended train(): "none", "external", "ValueError"
  oplog,           \* the operations each worker has performed, in order
  pg,              \* arguments of dist.init_process_group in each worker
  device,          \* local variable device
  sampler,         \* the DistributedSampler object
  kwargs,          \* the DataLoader keyword arguments
  optimizer,       \* the OSS object: base optimizer class and lr
  model,           \* "none", "net" (Net().to(device)), "sdp" (wrapped)
  epoch,           \* loop variable epoch
  batch_idx,       \* loop variable batch_idx
  pending,         \* batches the DataLoader iterator has not yielded yet
  iterEpoch,       \* sampler epoch the running DataLoader iterator was drawn with
  data,            \* the batch (its dataset indices) being processed
  grads,           \* batches whose gradient is accumulated in the parameters' .grad
  arrived,         \* number of collective calls each worker has entered
  training_start,  \* local variable training_start
  printed          \* the values printed after "Total Time:"

envVars == <<args, cudaAvailable, datasetLen>>
objVars == <<pg, device, sampler, kwargs, optimizer, model>>
loopVars == <<epoch, batch_idx, pending, iterEpoch, data, grads>>
timeVars == <<clock, training_start, printed>>
vars == <<args, cudaAvailable, datasetLen, parent, use_cuda, clock, pc, rank, err,
          oplog, pg, device, sampler, kwargs, optimizer, model, epoch, batch_idx,
          pending, iterEpoch, data, grads, arrived, training_start, printed>>

(* ------------------------------ values -------------------------------- *)
NoPg == [backend |-> "none", rank |-> -1, world_size |-> 0]
NoSampler == [num_replicas |-> 0, rank |-> -1, epoch |-> 0]
NoKwargs == [batch_size |-> 0, sampler |-> FALSE, shuffle |-> FALSE,
             num_workers |-> 0, pin_memory |-> FALSE]
NoOptimizer == [optim |-> "none", lr |-> 0]
NoDevice == <<"none", 0>>

\* the defaults of the flags that train() never reads
DefaultFlags ==
  [test_batch_size |-> DEFAULT_TEST_BATCH_SIZE, lr |-> DEFAULT_LR,
   gamma |-> DEFAULT_GAMMA, dry_run |-> FALSE, seed |-> DEFAULT_SEED,
   log_interval |-> DEFAULT_LOG_INTERVAL, save_model |-> FALSE]

\* for each of these flags, its default and one value given on the command line
FlagValues ==
  [test_batch_size : {DEFAULT_TEST_BATCH_SIZE, DEFAULT_TEST_BATCH_SIZE + 1},
   lr : {DEFAULT_LR, OSS_LR + 1},
   gamma : {DEFAULT_GAMMA, DEFAULT_GAMMA + 1},
   dry_run : BOOLEAN,
   seed : {DEFAULT_SEED, DEFAULT_SEED + 1},
   log_interval : {DEFAULT_LOG_INTERVAL, DEFAULT_LOG_INTERVAL + 1},
   save_model : BOOLEAN]

\* the number of flags of f that were given on the command line
Given(f) == Cardinality({k \in DOMAIN DefaultFlags : f[k] # DefaultFlags[k]})

\* command lines that give none, one or all of these flags
FlagChoices ==
  {f \in FlagValues : Given(f) \in {0, 1, Cardinality(DOMAIN DefaultFlags)}}

\* args = parser.parse_args()
ParseArgs(bs, ep, nc, f) ==
  [batch_size |-> bs, test_batch_size |-> f.test_batch_size, epochs |-> ep,
   lr |-> f.lr, gamma |-> f.gamma, no_cuda |-> nc, dry_run |-> f.dry_run,
   seed |-> f.seed, log_interval |-> f.log_interval, save_model |-> f.save_model]

\* the command lines explored: the flags train() never reads at their defaults
ArgSpace ==
  {ParseArgs(bs, ep, nc, DefaultFlags) :
     bs \in 1 .. MaxBatch, ep \in 0 .. MaxEpochs, nc \in BOOLEAN}

\* the command lines explored with the flags train() never reads given as well
FlagArgSpace ==
  {ParseArgs(bs, ep, nc, f) :
     bs \in 1 .. MaxBatch, ep \in 0 .. MaxEpochs, nc \in BOOLEAN, f \in FlagChoices}

(* ------------------------- pure helpers ------------------------------- *)
\* BACKEND = dist.Backend.NCCL if torch.cuda.is_available() else dist.Backend.GLOO
BACKEND == IF cudaAvailable THEN "nccl" ELSE "gloo"

\* use_cuda = not args.no_cuda and torch.cuda.is_available()
UseCuda(a) == (~a.no_cuda) /\ cudaAvailable

\* device = torch.device(rank) if use_cuda else torch.device("cpu")
Device(r, uc) == IF uc THEN <<"cuda", r>> ELSE <<"cpu", 0>>

\* kwargs = {"batch_size": ..., "sampler": sampler}; if use_cuda: kwargs.update(...)
LoaderKwargs(a, uc) ==
  [batch_size |-> a.batch_size, sampler |-> TRUE, shuffle |-> uc,
   num_workers |-> IF uc THEN 1 ELSE 0, pin_memory |-> uc]

\* DataLoader(dataset=dataset, **kwargs): the constructor raises ValueError
\* ("sampler option is mutually exclusive with shuffle") when both are given
DataLoaderAccepts(kw) == ~(kw.sampler /\ kw.shuffle)

\* a sampler built with rank 0 in every worker
NewSamplerRankZero(r) == [num_replicas |-> WORLD_SIZE, rank |-> 0, epoch |-> 0]

\* a sampler whose num_replicas is taken from the rank
NewSamplerReplicasFromRank(r) == [num_replicas |-> r + 1, rank |-> r, epoch |-> 0]

\* the sampler handed to DistributedSampler: num_replicas=WORLD_SIZE, rank=rank
NewSampler(r) == [num_replicas |-> WORLD_SIZE, rank |-> r, epoch |-> 0]

\* a set_epoch that leaves the sampler's epoch alone
SetEpochIgnored(s, e) == s

\* sampler.set_epoch(epoch)
SetEpoch(s, e) == [s EXCEPT !.epoch = e]

\* an optimizer that takes its learning rate from --lr
NewOptimizerFromLr(a) == [optim |-> "Adadelta", lr |-> a.lr]

\* OSS(params=model.parameters(), optim=torch.optim.Adadelta, lr=1e-4)
NewOptimizer(a) == [optim |-> "Adadelta", lr |-> OSS_LR]

\* range(args.epochs): the number of epochs the loop runs
EpochCount(a) == a.epochs

\* DistributedSampler.num_samples = ceil(len(dataset) / num_replicas)
NumSamples(n, w) == (n + w - 1) \div w

\* torch.randperm(n, generator seeded with seed + epoch): a permutation of
\* 0..n-1 fixed by the seed; modelled as the rotation by the seed
RandPerm(n, s) == [i \in 1 .. n |-> (i - 1 + s) % n]

\* DistributedSampler.__iter__: shuffle, pad to total_size, take every
\* num_replicas-th index starting at rank
SamplerIndices(n, s) ==
  LET perm == RandPerm(n, SAMPLER_SEED + s.epoch)
      total == NumSamples(n, s.num_replicas) * s.num_replicas
      padded == perm \o SubSeq(perm, 1, total - n)
  IN [k \in 1 .. NumSamples(n, s.num_replicas) |->
        padded[s.rank + 1 + (k - 1) * s.num_replicas]]

\* BatchSampler(sampler, batch_size, drop_last=False): consecutive chunks
RECURSIVE Chunks(_, _)
Chunks(idx, bs) ==
  IF Len(idx) = 0 THEN <<>>
  ELSE IF Len(idx) <= bs THEN <<idx>>
  ELSE <<SubSeq(idx, 1, bs)>> \o Chunks(SubSeq(idx, bs + 1, Len(idx)), bs)

\* iter(train_loader): the batches of one pass, from the sampler's current epoch
LoaderBatches(n, s, kw) == Chunks(SamplerIndices(n, s), kw.batch_size)

\* one entry of the operation log: <<operation, tag, a, b, indices>>
Op(name, tag, a, b) == <<name, tag, a, b, <<>>>>
OpIdx(name, a, b, idx) == <<name, "", a, b, idx>>

(* --------------------------- statement order -------------------------- *)
\* train() with the model built and wrapped before the process group is joined
\* and the data is set up
SuccModelFirst(p) ==
  CASE p = "dist_init" -> "set_device"
    [] p = "set_device" -> "model"
    [] p = "model" -> "optimizer"
    [] p = "optimizer" -> "wrap"
    [] p = "wrap" -> "dataset"
    [] p = "dataset" -> "sampler"
    [] p = "sampler" -> "kwargs"
    [] p = "kwargs" -> "loader"
    [] p = "loader" -> "train_start"
    [] p = "train_start" -> "epoch_head"
    [] OTHER -> "done"

\* the straight-line part of train(): the statement that follows each one
Succ(p) ==
  CASE p = "dist_init" -> "set_device"
    [] p = "set_device" -> "dataset"
    [] p = "dataset" -> "sampler"
    [] p = "sampler" -> "kwargs"
    [] p = "kwargs" -> "loader"
    [] p = "loader" -> "model"
    [] p = "model" -> "optimizer"
    [] p = "optimizer" -> "wrap"
    [] p = "wrap" -> "train_start"
    [] p = "train_start" -> "epoch_head"
    [] OTHER -> "done"

Goto(w, p) == pc' = [pc EXCEPT ![w] = p]
Log(w, e) == oplog' = [oplog EXCEPT ![w] = Append(@, e)]
At(w, p) == parent = "joining" /\ pc[w] = p

\* a train() that notes the exception and carries on
RaiseAndCarryOn(w, kind) ==
  /\ pc' = pc
  /\ err' = [err EXCEPT ![w] = kind]

\* train() has no try/except: an exception leaves train() and ends the process
Raise(w, kind) ==
  /\ pc' = [pc EXCEPT ![w] = "failed"]
  /\ err' = [err EXCEPT ![w] = kind]

\* a collective call returns in a worker once every worker has entered it
AllArrived(k) == \A v \in Procs : arrived[v] >= k

(* ------------------------------- Init --------------------------------- *)
Start ==
  /\ parent = "main"
  /\ use_cuda = FALSE
  /\ clock = [w \in Procs |-> 0]
  /\ pc = [w \in Procs |-> "unspawned"]
  /\ rank = [w \in Procs |-> -1]
  /\ err = [w \in Procs |-> "none"]
  /\ oplog = [w \in Procs |-> <<>>]
  /\ pg = [w \in Procs |-> NoPg]
  /\ device = [w \in Procs |-> NoDevice]
  /\ sampler = [w \in Procs |-> NoSampler]
  /\ kwargs = [w \in Procs |-> NoKwargs]
  /\ optimizer = [w \in Procs |-> NoOptimizer]
  /\ model = [w \in Procs |-> "none"]
  /\ epoch = [w \in Procs |-> 0]
  /\ batch_idx = [w \in Procs |-> 0]
  /\ pending = [w \in Procs |-> <<>>]
  /\ iterEpoch = [w \in Procs |-> 0]
  /\ data = [w \in Procs |-> <<>>]
  /\ grads = [w \in Procs |-> <<>>]
  /\ arrived = [w \in Procs |-> 0]
  /\ training_start = [w \in Procs |-> 0]
  /\ printed = [w \in Procs |-> <<>>]

Init ==
  /\ args \in ArgSpace
  /\ cudaAvailable \in BOOLEAN
  /\ datasetLen \in 1 .. MaxDataset
  /\ Start

\* the runs in which the flags train() never reads are given too
InitFlags ==
  /\ args \in FlagArgSpace
  /\ cudaAvailable \in BOOLEAN
  /\ datasetLen = MaxDataset
  /\ Start

(* ------------------------------ main() -------------------------------- *)
\* the rank mp.spawn hands to process i
SpawnRank(i) == i

\* use_cuda = ...; mp.spawn(train, args=(args, use_cuda), nprocs=WORLD_SIZE, join=True)
Main ==
  /\ parent = "main"
  /\ parent' = "joining"
  /\ use_cuda' = UseCuda(args)
  /\ rank' = [w \in Procs |-> SpawnRank(w)]
  /\ pc' = [w \in Procs |-> "dist_init"]
  /\ UNCHANGED <<envVars, objVars, loopVars, timeVars, err, oplog, arrived>>

\* join=True: spawn returns once every process has exited without error
JoinReturn ==
  /\ parent = "joining"
  /\ \A w \in Procs : pc[w] = "done"
  /\ parent' = "returned"
  /\ UNCHANGED <<envVars, objVars, loopVars, timeVars, use_cuda, pc, rank, err,
                 oplog, arrived>>

\* join=True: when a process has died with an exception, spawn terminates the
\* processes still alive and raises in the parent
JoinRaise ==
  /\ parent = "joining"
  /\ \E w \in Procs : pc[w] = "failed"
  /\ parent' = "raised"
  /\ pc' = [w \in Procs |-> IF pc[w] \in {"done", "failed"} THEN pc[w] ELSE "killed"]
  /\ UNCHANGED <<envVars, objVars, loopVars, timeVars, use_cuda, rank, err,
                 oplog, arrived>>

(* ------------------------------ train() ------------------------------- *)
\* dist_init(rank, WORLD_SIZE, BACKEND): print the backend and enter the rendezvous
DistInit(w) ==
  /\ At(w, "dist_init")
  /\ pg' = [pg EXCEPT ![w] = [backend |-> BACKEND, rank |-> rank[w],
                               world_size |-> WORLD_SIZE]]
  /\ arrived' = [arrived EXCEPT ![w] = @ + 1]
  /\ Log(w, Op("dist_init", BACKEND, rank[w], WORLD_SIZE))
  /\ Goto(w, "dist_init_wait")
  /\ UNCHANGED <<envVars, loopVars, timeVars, parent, use_cuda, rank, err,
                 device, sampler, kwargs, optimizer, model>>

\* init_process_group returns once every rank has joined
DistInitReturn(w) ==
  /\ At(w, "dist_init_wait")
  /\ AllArrived(arrived[w])
  /\ Goto(w, Succ("dist_init"))
  /\ UNCHANGED <<envVars, objVars, loopVars, timeVars, parent, use_cuda, rank, err,
                 oplog, arrived>>

\* if use_cuda: torch.cuda.set_device(rank); device = ...
SetDevice(w) ==
  /\ At(w, "set_device")
  /\ device' = [device EXCEPT ![w] = Device(rank[w], use_cuda)]
  /\ Log(w, Op("device", Device(rank[w], use_cuda)[1], Device(rank[w], use_cuda)[2], 0))
  /\ Goto(w, Succ("set_device"))
  /\ UNCHANGED <<envVars, loopVars, timeVars, parent, use_cuda, rank, err, arrived,
                 pg, sampler, kwargs, optimizer, model>>

\* transform = ...; dataset = datasets.MNIST("../data", train=True, download=True, ...)
LoadDataset(w) ==
  /\ At(w, "dataset")
  /\ Log(w, Op("dataset", "", datasetLen, 0))
  /\ Goto(w, Succ("dataset"))
  /\ UNCHANGED <<envVars, objVars, loopVars, timeVars, parent, use_cuda, rank, err,
                 arrived>>

\* sampler = DistributedSampler(dataset, num_replicas=WORLD_SIZE, rank=rank)
MakeSampler(w) ==
  /\ At(w, "sampler")
  /\ sampler' = [sampler EXCEPT ![w] = NewSampler(rank[w])]
  /\ Log(w, Op("sampler", "", NewSampler(rank[w]).num_replicas, NewSampler(rank[w]).rank))
  /\ Goto(w, Succ("sampler"))
  /\ UNCHANGED <<envVars, loopVars, timeVars, parent, use_cuda, rank, err, arrived,
                 pg, device, kwargs, optimizer, model>>

\* kwargs = {...}; if use_cuda: kwargs.update({...})
MakeKwargs(w) ==
  /\ At(w, "kwargs")
  /\ kwargs' = [kwargs EXCEPT ![w] = LoaderKwargs(args, use_cuda)]
  /\ Goto(w, Succ("kwargs"))
  /\ UNCHANGED <<envVars, loopVars, timeVars, parent, use_cuda, rank, err, arrived,
                 oplog, pg, device, sampler, optimizer, model>>

\* train_loader = DataLoader(dataset=dataset, **kwargs)
MakeLoader(w) ==
  /\ At(w, "loader")
  /\ IF DataLoaderAccepts(kwargs[w])
       THEN /\ Goto(w, Succ("loader"))
            /\ Log(w, Op("loader", "", kwargs[w].batch_size, kwargs[w].num_workers))
            /\ err' = err
       ELSE /\ Raise(w, "ValueError")
            /\ oplog' = oplog
  /\ UNCHANGED <<envVars, objVars, loopVars, timeVars, parent, use_cuda, rank, arrived>>

\* model = Net().to(device); loss_fn = nn.CrossEntropyLoss()
MakeModel(w) ==
  /\ At(w, "model")
  /\ model' = [model EXCEPT ![w] = "net"]
  /\ Log(w, Op("model", device[w][1], device[w][2], 0))
  /\ Goto(w, Succ("model"))
  /\ UNCHANGED <<envVars, loopVars, timeVars, parent, use_cuda, rank, err, arrived,
                 pg, device, sampler, kwargs, optimizer>>

\* optimizer = OSS(params=model.parameters(), optim=torch.optim.Adadelta, lr=1e-4)
MakeOptimizer(w) ==
  /\ At(w, "optimizer")
  /\ optimizer' = [optimizer EXCEPT ![w] = NewOptimizer(args)]
  /\ Log(w, Op("optimizer", NewOptimizer(args).optim, NewOptimizer(args).lr, 0))
  /\ Goto(w, Succ("optimizer"))
  /\ UNCHANGED <<envVars, loopVars, timeVars, parent, use_cuda, rank, err, arrived,
                 pg, device, sampler, kwargs, model>>

\* model = ShardedDataParallel(model, optimizer,)
Wrap(w) ==
  /\ At(w, "wrap")
  /\ model' = [model EXCEPT ![w] = "sdp"]
  /\ Log(w, Op("wrap", optimizer[w].optim, 0, 0))
  /\ Goto(w, Succ("wrap"))
  /\ UNCHANGED <<envVars, loopVars, timeVars, parent, use_cuda, rank, err, arrived,
                 pg, device, sampler, kwargs, optimizer>>

\* if use_cuda: reset_peak_memory_stats, synchronize;
\* training_start = time.monotonic(); model.train(); measurements = []
TrainStart(w) ==
  /\ At(w, "train_start")
  /\ training_start' = [training_start EXCEPT ![w] = clock[w]]
  /\ epoch' = [epoch EXCEPT ![w] = 0]
  /\ Log(w, Op("train_start", "", 0, 0))
  /\ Goto(w, Succ("train_start"))
  /\ UNCHANGED <<envVars, objVars, parent, use_cuda, rank, err, arrived, printed,
                 clock, batch_idx, pending, iterEpoch, data, grads>>

\* for epoch in range(args.epochs): sampler.set_epoch(epoch); epoch_start = ...;
\* enumerate(train_loader) draws the epoch's batches from the sampler
EpochHead(w) ==
  /\ At(w, "epoch_head")
  /\ IF epoch[w] < EpochCount(args)
       THEN /\ sampler' = [sampler EXCEPT ![w] = SetEpoch(@, epoch[w])]
            /\ pending' = [pending EXCEPT ![w] =
                             LoaderBatches(datasetLen, sampler'[w], kwargs[w])]
            /\ iterEpoch' = [iterEpoch EXCEPT ![w] = sampler'[w].epoch]
            /\ batch_idx' = [batch_idx EXCEPT ![w] = -1]
            /\ Log(w, Op("set_epoch", "", sampler'[w].epoch, 0))
            /\ Goto(w, "next_batch")
       ELSE /\ Goto(w, "train_stop")
            /\ UNCHANGED <<sampler, pending, iterEpoch, batch_idx, oplog>>
  /\ UNCHANGED <<envVars, timeVars, parent, use_cuda, rank, err, arrived,
                 pg, device, kwargs, optimizer, model, epoch, data, grads>>

\* the inner for: the next (data, target), or epoch_end = time.monotonic()
NextBatch(w) ==
  /\ At(w, "next_batch")
  /\ IF pending[w] # <<>>
       THEN /\ data' = [data EXCEPT ![w] = Head(pending[w])]
            /\ pending' = [pending EXCEPT ![w] = Tail(@)]
            /\ batch_idx' = [batch_idx EXCEPT ![w] = @ + 1]
            /\ Log(w, OpIdx("batch", iterEpoch[w], batch_idx[w] + 1, Head(pending[w])))
            /\ Goto(w, "to_device")
            /\ epoch' = epoch
       ELSE /\ epoch' = [epoch EXCEPT ![w] = @ + 1]
            /\ Goto(w, "epoch_head")
            /\ UNCHANGED <<data, pending, batch_idx, oplog>>
  /\ UNCHANGED <<envVars, objVars, timeVars, parent, use_cuda, rank, err, arrived,
                 iterEpoch, grads>>

\* data, target = data.to(device), target.to(device)
ToDevice(w) ==
  /\ At(w, "to_device")
  /\ Log(w, Op("to_device", device[w][1], device[w][2], 0))
  /\ Goto(w, "step")
  /\ UNCHANGED <<envVars, objVars, loopVars, timeVars, parent, use_cuda, rank, err,
                 arrived>>

\* a closure that does not zero the gradients
ZeroGradMissing(g) == g

\* model.zero_grad()
ZeroGrad(g) == <<>>

\* loss.backward(): adds the batch's gradient to what .grad holds
Backward(g, e, b) == Append(g, <<e, b>>)

\* def closure(): zero_grad, forward, loss, backward, in this order
ClosureOps(e, b) ==
  << Op("zero_grad", "", e, b), Op("forward", "", e, b),
     Op("loss", "", e, b), Op("backward", "", e, b) >>

\* the gradient the closure leaves behind
ClosureGrads(g, e, b) == Backward(ZeroGrad(g), e, b)

\* optimizer.step(closure): the step evaluates the closure and then enters the
\* sharded update, a collective call
Step(w) ==
  /\ At(w, "step")
  /\ grads' = [grads EXCEPT ![w] = ClosureGrads(@, epoch[w], batch_idx[w])]
  /\ arrived' = [arrived EXCEPT ![w] = @ + 1]
  /\ oplog' = [oplog EXCEPT ![w] =
                 Append(Append(@, Op("step", "", epoch[w], batch_idx[w]))
                          \o ClosureOps(epoch[w], batch_idx[w]),
                        OpIdx("update", epoch[w], batch_idx[w], grads'[w]))]
  /\ Goto(w, "update_wait")
  /\ UNCHANGED <<envVars, objVars, timeVars, parent, use_cuda, rank, err,
                 epoch, batch_idx, pending, iterEpoch, data>>

\* the collective of the update returns once every worker has entered it
StepReturn(w) ==
  /\ At(w, "update_wait")
  /\ AllArrived(arrived[w])
  /\ Goto(w, "next_batch")
  /\ UNCHANGED <<envVars, objVars, loopVars, timeVars, parent, use_cuda, rank, err,
                 oplog, arrived>>

\* if use_cuda: synchronize; training_stop = time.monotonic();
\* print("Total Time:", training_stop - training_start)
TrainStop(w) ==
  /\ At(w, "train_stop")
  /\ \E d \in Elapse :
       /\ clock' = [clock EXCEPT ![w] = @ + d]
       /\ printed' = [printed EXCEPT ![w] =
                        Append(@, (clock[w] + d) - training_start[w])]
  /\ Log(w, Op("print_total_time", "", 0, 0))
  /\ Goto(w, "done")
  /\ UNCHANGED <<envVars, objVars, loopVars, parent, use_cuda, rank, err, arrived,
                 training_start>>

\* the calls into the rendezvous, the dataset download, the devices and the
\* optimizer step, which may raise
External(w) ==
  \/ pc[w] \in {"dist_init", "dist_init_wait", "dataset", "loader", "model",
                "to_device", "step", "update_wait"}
  \/ (use_cuda /\ pc[w] \in {"set_device", "train_start", "train_stop"})

\* an external call raises
Fail(w) ==
  /\ parent = "joining"
  /\ External(w)
  /\ Raise(w, "external")
  /\ UNCHANGED <<envVars, objVars, loopVars, timeVars, parent, use_cuda, rank,
                 oplog, arrived>>

WorkerStep(w) ==
  \/ DistInit(w) \/ DistInitReturn(w) \/ SetDevice(w) \/ LoadDataset(w)
  \/ MakeSampler(w) \/ MakeKwargs(w) \/ MakeLoader(w) \/ MakeModel(w)
  \/ MakeOptimizer(w) \/ Wrap(w) \/ TrainStart(w) \/ EpochHead(w)
  \/ NextBatch(w) \/ ToDevice(w) \/ Step(w)
  \/ StepReturn(w) \/ TrainStop(w)

Next ==
  \/ Main
  \/ \E w \in Procs : WorkerStep(w)
  \/ \E w \in Procs : Fail(w)
  \/ JoinReturn
  \/ JoinRaise

Spec == Init /\ [][Next]_vars

\* the runs in which no external call raises
NextNoFault ==
  \/ Main
  \/ \E w \in Procs : WorkerStep(w)
  \/ JoinReturn
  \/ JoinRaise

SpecFlags == InitFlags /\ [][NextNoFault]_vars

(* ====================== the run a worker is to perform ================== *)
IsPrefix(s, t) == Len(s) <= Len(t) /\ s = SubSeq(t, 1, Len(s))

\* the samples of rank r and the batches of an epoch, in closed form
ExpectedSamples(n) == (n + WORLD_SIZE - 1) \div WORLD_SIZE
ExpectedBatchCount(n, bs) == (ExpectedSamples(n) + bs - 1) \div bs
ExpectedIndex(n, r, e, k) == (((r + (k - 1) * WORLD_SIZE) % n) + e) % n
ExpectedBatch(n, bs, r, e, b) ==
  LET lo == b * bs + 1
      hi == IF (b + 1) * bs < ExpectedSamples(n) THEN (b + 1) * bs ELSE ExpectedSamples(n)
  IN [j \in 1 .. (hi - lo + 1) |-> ExpectedIndex(n, r, e, lo + j - 1)]

ExpectedStep(n, bs, r, dev, e, b) ==
  << OpIdx("batch", e, b, ExpectedBatch(n, bs, r, e, b)),
     Op("to_device", dev[1], dev[2], 0),
     Op("step", "", e, b),
     Op("zero_grad", "", e, b), Op("forward", "", e, b),
     Op("loss", "", e, b), Op("backward", "", e, b),
     OpIdx("update", e, b, << <<e, b>> >>) >>

RECURSIVE ExpectedSteps(_, _, _, _, _, _)
\* the steps of epoch e from batch b on
ExpectedSteps(n, bs, r, dev, e, b) ==
  IF b >= ExpectedBatchCount(n, bs) THEN <<>>
  ELSE ExpectedStep(n, bs, r, dev, e, b) \o ExpectedSteps(n, bs, r, dev, e, b + 1)

RECURSIVE ExpectedEpochs(_, _, _, _, _, _)
\* the epochs e .. ep-1
ExpectedEpochs(n, bs, r, dev, e, ep) ==
  IF e >= ep THEN <<>>
  ELSE <<Op("set_epoch", "", e, 0)>> \o ExpectedSteps(n, bs, r, dev, e, 0)
         \o ExpectedEpochs(n, bs, r, dev, e + 1, ep)

\* the operations up to the sampler
ExpectedSetup(r, uc, n, be) ==
  LET dev == IF uc THEN <<"cuda", r>> ELSE <<"cpu", 0>>
  IN << Op("dist_init", be, r, WORLD_SIZE), Op("device", dev[1], dev[2], 0),
        Op("dataset", "", n, 0), Op("sampler", "", WORLD_SIZE, r) >>

\* one training run: the operations of train(r, args, uc) with batch size bs
\* and ep epochs on a dataset of n samples, on a host whose backend is be,
\* from dist_init through the pass over the epochs to the print
TrainingRun(r, bs, ep, uc, n, be) ==
  LET dev == IF uc THEN <<"cuda", r>> ELSE <<"cpu", 0>>
  IN ExpectedSetup(r, uc, n, be)
     \o << Op("loader", "", bs, IF uc THEN 1 ELSE 0), Op("model", dev[1], dev[2], 0),
           Op("optimizer", "Adadelta", OSS_LR, 0), Op("wrap", "Adadelta", 0, 0),
           Op("train_start", "", 0, 0) >>
     \o ExpectedEpochs(n, bs, r, dev, 0, ep)
     \o << Op("print_total_time", "", 0, 0) >>

\* the operations train() performs when no external call raises: with use_cuda
\* the DataLoader constructor raises, without it the training run
ExpectedTrace(r, bs, ep, uc, n, be) ==
  IF uc THEN ExpectedSetup(r, uc, n, be) ELSE TrainingRun(r, bs, ep, uc, n, be)

\* positions of the log of w that hold operation name
Where(w, name) == {i \in 1 .. Len(oplog[w]) : oplog[w][i][1] = name}
Spawned == {w \in Procs : pc[w] # "unspawned"}
Ended(w) == pc[w] \in {"done", "failed"}
\* w waits in a collective call that some worker has not entered
Blocked(w) ==
  pc[w] \in {"dist_init_wait", "update_wait"} /\ ~AllArrived(arrived[w])
NoExternalFailure == \A w \in Procs : err[w] # "external"

(* ================================ claims =============================== *)

\* C1: a run in which no external call fails completes without error: no
\* worker's train() ends with an exception, the parent's spawn does not
\* raise, and every printed elapsed time is non-negative; this for every
\* epoch count, every non-empty dataset and both values of use_cuda.
C1_CompletesWithoutError ==
  NoExternalFailure =>
    /\ \A w \in Procs : pc[w] # "failed" /\ err[w] = "none"
    /\ parent # "raised"
    /\ \A w \in Procs : \A i \in 1 .. Len(printed[w]) : printed[w][i] >= 0

\* the phase of train() an operation belongs to: joining the group (1), data
\* set up (2), model set up (3), training (4), the final print (5)
Phase(name) ==
  CASE name \in {"dist_init", "device"} -> 1
    [] name \in {"dataset", "sampler", "loader"} -> 2
    [] name \in {"model", "optimizer", "wrap", "train_start"} -> 3
    [] name = "print_total_time" -> 5
    [] OTHER -> 4

\* C2: in every worker the phases come in order: dist_init, then dataset,
\* sampler and loader, then model, optimizer and wrapper, then the optimizer
\* steps, then the print, which follows the last step of the last epoch; and
\* spawn returns in the parent only after every worker has finished train().
C2_PhasesInOrder ==
  /\ \A w \in Procs :
       LET log == oplog[w]
           prints == Where(w, "print_total_time")
       IN
       /\ \A i \in 1 .. Len(log) - 1 : Phase(log[i][1]) <= Phase(log[i + 1][1])
       /\ log # <<>> => log[1][1] = "dist_init"
       /\ Where(w, "step") # {} => (Where(w, "wrap") # {} /\ model[w] = "sdp")
       /\ prints # {} =>
            /\ prints = {Len(log)}
            /\ Cardinality(Where(w, "update"))
                 = args.epochs * ExpectedBatchCount(datasetLen, args.batch_size)
            /\ pc[w] = "done"
  /\ parent = "returned" =>
       \A w \in Procs : pc[w] = "done" /\ Where(w, "print_total_time") # {}

C2_Witness ==
  /\ parent = "returned"
  /\ \A w \in Procs : Cardinality(Where(w, "update")) >= 2

\* C3: spawn starts exactly WORLD_SIZE = 2 workers, each running train() once
\* with its own rank, the ranks being exactly 0 and 1; in every worker the
\* world_size of the process group and the num_replicas of the sampler equal
\* the number of workers, and the rank given to both is the worker's own.
C3_RanksAndWorldSize ==
  parent # "main" =>
    /\ Cardinality(Spawned) = 2
    /\ Cardinality(Spawned) = WORLD_SIZE
    /\ {rank[w] : w \in Spawned} = {0, 1}
    /\ \A w \in Procs : Cardinality(Where(w, "dist_init")) <= 1
    /\ \A w \in Procs :
         pg[w] # NoPg =>
           /\ pg[w].world_size = Cardinality(Spawned)
           /\ pg[w].rank = rank[w]
    /\ \A w \in Procs :
         sampler[w] # NoSampler =>
           /\ sampler[w].num_replicas = Cardinality(Spawned)
           /\ sampler[w].rank = rank[w]
    /\ \A w, v \in Procs :
         (sampler[w] # NoSampler /\ sampler[v] # NoSampler /\ w # v)
           => sampler[w].rank # sampler[v].rank

C3_Witness ==
  \A w \in Procs : pg[w] # NoPg /\ sampler[w] # NoSampler /\ pc[w] = "done"

\* C4: an exception raised inside train() is fatal for the worker: from then
\* on the worker stays failed, performs no further operation, enters no
\* further collective call and never prints the elapsed time.
C4_FailureIsFatal ==
  [][\A w \in Procs :
       err[w] # "none" =>
         /\ pc[w] = "failed"
         /\ pc'[w] = "failed"
         /\ err'[w] = err[w]
         /\ oplog'[w] = oplog[w]
         /\ arrived'[w] = arrived[w]
         /\ printed[w] = <<>> /\ printed'[w] = <<>>]_vars

C4_Witness ==
  \E w, v \in Procs :
    /\ err[w] = "external" /\ pc[w] = "failed"
    /\ Where(w, "step") # {}
    /\ parent = "raised" /\ pc[v] = "killed"

\* C5: in every worker set_epoch is called once per epoch, for 0, 1, ... in
\* increasing order (the k-th call sets epoch k-1), all args.epochs of them by
\* the end; every batch is drawn after the set_epoch of its epoch and before
\* the next set_epoch, and the batch being processed belongs to the epoch
\* last set on the sampler.
C5_SetEpochPerEpoch ==
  \A w \in Procs :
    LET log == oplog[w]
        calls == Where(w, "set_epoch")
        before(i) == {j \in calls : j < i}
    IN
    /\ \A i \in calls : log[i][3] = Cardinality(before(i))
    /\ Cardinality(calls) <= args.epochs
    /\ pc[w] = "done" => Cardinality(calls) = args.epochs
    /\ \A i \in Where(w, "batch") :
         /\ before(i) # {}
         /\ log[i][3] = Cardinality(before(i)) - 1
    /\ pc[w] \in {"next_batch", "to_device", "step", "update_wait"} =>
         /\ sampler[w].epoch = epoch[w]
         /\ iterEpoch[w] = epoch[w]
         /\ Cardinality(calls) = epoch[w] + 1

C5_Witness ==
  \E w \in Procs :
    /\ pc[w] = "to_device"
    /\ epoch[w] = 1
    /\ Cardinality(Where(w, "set_epoch")) = 2

C7_OneDeterministicRun ==
  \A w \in Spawned :
    LET run == TrainingRun(rank[w], args.batch_size, args.epochs, use_cuda,
                           datasetLen, BACKEND)
    IN /\ IsPrefix(oplog[w], run)
       /\ (Ended(w) /\ err[w] # "external") =>
            /\ oplog[w] = run
            /\ Len(printed[w]) = 1

\* C7, the part that holds: the operations performed are always a prefix of
\* the sequence fixed by rank, arguments and use_cuda, which with use_cuda
\* ends at the DataLoader constructor; a train() that returns has performed
\* all of it and has printed once.
C7_Deterministic ==
  \A w \in Spawned :
    LET ref == ExpectedTrace(rank[w], args.batch_size, args.epochs, use_cuda,
                             datasetLen, BACKEND)
    IN /\ IsPrefix(oplog[w], ref)
       /\ pc[w] = "done" =>
            /\ oplog[w] = ref
            /\ Len(printed[w]) = 1
            /\ Cardinality(Where(w, "print_total_time")) = 1
       /\ pc[w] # "done" => printed[w] = <<>>

\* C8: every batch drawn gets exactly one optimizer.step(closure); the closure
\* runs zero_grad, forward, loss, backward in this order; the sharded update
\* of a step follows the backward of that step, and the gradient it applies
\* is the gradient of that batch alone.
C8_OneStepPerBatch ==
  \A w \in Procs :
    LET log == oplog[w]
        batches == Where(w, "batch")
        steps == Where(w, "step")
        same(i, j) == log[i][3] = log[j][3] /\ log[i][4] = log[j][4]
        stepsOf(i) == {j \in steps : same(i, j)}
    IN
    /\ \A i \in batches :
         /\ Cardinality(stepsOf(i)) <= 1
         /\ \A j \in stepsOf(i) : j > i
         /\ ((\E j \in batches : j > i) \/ pc[w] = "done") => stepsOf(i) # {}
    /\ \A i \in steps :
         /\ i + 5 <= Len(log)
         /\ log[i + 1][1] = "zero_grad" /\ same(i, i + 1)
         /\ log[i + 2][1] = "forward" /\ same(i, i + 2)
         /\ log[i + 3][1] = "loss" /\ same(i, i + 3)
         /\ log[i + 4][1] = "backward" /\ same(i, i + 4)
         /\ log[i + 5][1] = "update" /\ same(i, i + 5)
         /\ log[i + 5][5] = << <<log[i][3], log[i][4]>> >>
         /\ \E j \in batches : j < i /\ same(i, j)
    /\ \A i \in Where(w, "update") : i > 5 /\ log[i - 5][1] = "step"
    /\ pc[w] = "update_wait" => grads[w] = << <<epoch[w], batch_idx[w]>> >>

C8_Witness ==
  \E w \in Procs :
    /\ pc[w] = "update_wait"
    /\ Cardinality(Where(w, "update")) >= 2

\* the positions of the collective calls in the log of w
CollectiveCalls(w) ==
  {i \in 1 .. Len(oplog[w]) : oplog[w][i][1] \in {"dist_init", "update"}}

\* a collective call: the operation, and the epoch and batch of an update
CollectiveTag(e) ==
  IF e[1] = "update" THEN <<"update", e[3], e[4]>> ELSE <<"dist_init", 0, 0>>

C10_BackendMatchesDevice ==
  \A w \in Procs :
    (pg[w] # NoPg /\ device[w] # NoDevice) =>
      /\ pg[w].backend = "nccl" <=> device[w] = <<"cuda", rank[w]>>
      /\ device[w] = <<"cpu", 0>> => pg[w].backend = "gloo"
====
